---------------------------- MODULE Spec2Model ----------------------------
(***************************************************************************)
(* Model of the cinema_paris showtime aggregator.                          *)
(*                                                                         *)
(*   Spec         get_all_showtimes: the per-theater pagination loop       *)
(*                (Theater.get_showtimes), the movie parser, the fold by   *)
(*                title and the popularity sort.                           *)
(*   SpecFetchReturns  Spec, with every awaited fetch returning.           *)
(*   SpecRuntime  Theater._parse_runtime applied to a bounded set of       *)
(*                runtime strings.                                         *)
(*   SpecRoutes   the HTTP surface: route registration order, dispatch,    *)
(*                the home handler's clamping of delta.                    *)
(*   SpecCast     Theater.parse_cast applied to a bounded set of cast      *)
(*                edge lists.                                              *)
(*                                                                         *)
(* A Python str is a sequence of one-character strings, so that split,     *)
(* the "in" operator and int() are computed on the text itself.            *)
(***************************************************************************)
EXTENDS Integers, Sequences, FiniteSets, TLC

VARIABLES
    \* ---- get_all_showtimes / Theater.get_showtimes ----
    pc,            \* "idle" | "fetch" | "returned" | "failed" | "done"
    date,          \* the date argument of get_all_showtimes
    ti,            \* index in theaters of the theater being fetched
    page,          \* local variable page of get_showtimes
    showtimes,     \* local variable showtimes of get_showtimes
    responses,     \* what fetch_showtimes_page received during this call
    calls,         \* every call of fetch_showtimes_page, in order
    allShowtimes,  \* local variable showtimes of get_all_showtimes
    result,        \* what get_all_showtimes returned
    \* ---- Theater._parse_runtime ----
    runtime_str,   \* the argument
    rt_pc,         \* "call" | "done"
    rt_out,        \* the outcome: a returned int or a raised exception
    \* ---- the HTTP surface ----
    web_pc,        \* "request" | "awaiting" | "responded"
    today,         \* datetime.today(), as a day number
    request,       \* the incoming GET request
    handler,       \* the endpoint the request was dispatched to
    delta,         \* the home handler's delta after clamping
    dates,         \* the 7 day-selector entries built by home
    agg_date,      \* the date home passed to get_all_showtimes
    response,      \* the HTTP response
    \* ---- Theater.parse_cast ----
    edges,         \* the argument: the cast edge list of a movie record
    cast_pc,       \* "call" | "done"
    cast_out       \* the list of names returned

aggVars == <<pc, date, ti, page, showtimes, responses, calls, allShowtimes, result>>
rtVars == <<runtime_str, rt_pc, rt_out>>
webVars == <<web_pc, today, request, handler, delta, dates, agg_date, response>>
castVars == <<edges, cast_pc, cast_out>>
vars == <<aggVars, rtVars, webVars, castVars>>

-----------------------------------------------------------------------------
(* Bounds of the model *)

\* number of configured theaters
NTheaters == 2
\* get_showtimes is followed up to this page
MaxPage == 2
\* length of the generated runtime strings
MaxLen == 4
\* the requests carry a delta in -DeltaSpan .. 6 + DeltaSpan
DeltaSpan == 3
\* datetime.today() is one of the days 0 .. MaxToday
MaxToday == 1
\* length of the cast edge lists
MaxEdges == 2

-----------------------------------------------------------------------------
(* Python values *)

\* None, which is no str
None == <<"<None>">>

\* the outcome of a call: a returned value or a raised exception
Returned(v) == [raised |-> FALSE, val |-> v]
Raised == [raised |-> TRUE, val |-> 0]

DigitChars == <<"0", "1", "2", "3", "4", "5", "6", "7", "8", "9">>
IsDigit(c) == \E i \in 1..10 : DigitChars[i] = c
DigitVal(c) == (CHOOSE i \in 1..10 : DigitChars[i] = c) - 1

\* str.isspace for the characters of the model
IsSpace(c) == c = " "

RECURSIVE LStrip(_)
LStrip(s) == IF s # <<>> /\ IsSpace(Head(s)) THEN LStrip(Tail(s)) ELSE s

RECURSIVE RStrip(_)
RStrip(s) ==
    IF s # <<>> /\ IsSpace(s[Len(s)]) THEN RStrip(SubSeq(s, 1, Len(s) - 1)) ELSE s

RECURSIVE DigitsValue(_)
DigitsValue(s) ==
    IF s = <<>> THEN 0
    ELSE 10 * DigitsValue(SubSeq(s, 1, Len(s) - 1)) + DigitVal(s[Len(s)])

\* int(s) for a str: surrounding whitespace is ignored, one sign is allowed,
\* then at least one digit and nothing else; anything else raises ValueError
PyInt(s) ==
    LET t == RStrip(LStrip(s))
        signed == t # <<>> /\ Head(t) \in {"+", "-"}
        body == IF signed THEN Tail(t) ELSE t
    IN  IF body = <<>> \/ \E i \in 1..Len(body) : ~IsDigit(body[i])
        THEN Raised
        ELSE Returned(IF signed /\ Head(t) = "-" THEN 0 - DigitsValue(body)
                      ELSE DigitsValue(body))

\* pat in s
Contains(s, pat) ==
    \E i \in 1..(Len(s) - Len(pat) + 1) : SubSeq(s, i, i + Len(pat) - 1) = pat

\* s.split(pat)[0]: the text before the first occurrence of pat, all of s
\* when pat does not occur
SplitFirst(s, pat) ==
    IF Contains(s, pat)
    THEN LET i == CHOOSE k \in 1..(Len(s) - Len(pat) + 1) :
                     /\ SubSeq(s, k, k + Len(pat) - 1) = pat
                     /\ \A j \in 1..(k - 1) : SubSeq(s, j, j + Len(pat) - 1) # pat
         IN  SubSeq(s, 1, i - 1)
    ELSE s

\* s.split()[-1]: the last whitespace-separated word; IndexError when s has none
SplitLast(s) ==
    LET t == RStrip(s)
    IN  IF t = <<>> THEN Raised
        ELSE LET starts == {k \in 1..Len(t) : \A j \in k..Len(t) : ~IsSpace(t[j])}
                 i == CHOOSE k \in starts : \A j \in starts : k <= j
             IN  Returned(SubSeq(t, i, Len(t)))

-----------------------------------------------------------------------------
(* Theater._parse_runtime *)

\* a parser that reads the hours whether or not the text has an "h"
parse_runtime_unguarded_hours(s) ==
    IF s = None THEN Returned(0)
    ELSE LET hours == PyInt(SplitFirst(s, <<"h">>))
             word == SplitLast(SplitFirst(s, <<"m", "i", "n">>))
             minutes == IF Contains(s, <<"m", "i", "n">>)
                        THEN IF word.raised THEN Raised ELSE PyInt(word.val)
                        ELSE Returned(0)
         IN  IF hours.raised \/ minutes.raised THEN Raised
             ELSE Returned(hours.val * 60 + minutes.val)

\* a parser that reads the minutes whether or not the text has a "min"
parse_runtime_unguarded_minutes(s) ==
    IF s = None THEN Returned(0)
    ELSE LET hours == IF Contains(s, <<"h">>)
                      THEN PyInt(SplitFirst(s, <<"h">>))
                      ELSE Returned(0)
             word == SplitLast(SplitFirst(s, <<"m", "i", "n">>))
             minutes == IF word.raised THEN Raised ELSE PyInt(word.val)
         IN  IF hours.raised \/ minutes.raised THEN Raised
             ELSE Returned(hours.val * 60 + minutes.val)

parse_runtime(s) ==
    IF s = None THEN Returned(0)
    ELSE LET hours == IF Contains(s, <<"h">>)
                      THEN PyInt(SplitFirst(s, <<"h">>))
                      ELSE Returned(0)
             word == SplitLast(SplitFirst(s, <<"m", "i", "n">>))
             minutes == IF Contains(s, <<"m", "i", "n">>)
                        THEN IF word.raised THEN Raised ELSE PyInt(word.val)
                        ELSE Returned(0)
         IN  IF hours.raised \/ minutes.raised THEN Raised
             ELSE Returned(hours.val * 60 + minutes.val)

\* the characters the generated runtime strings are made of
RuntimeChars == {"1", "h", "m", "i", "n", " ", "-"}

\* the runtime strings of the test suite and of the docstring's "Xh Ymin" shape
RuntimeSamples ==
    { <<"1", "h", " ", "5", "4", "m", "i", "n">>,
      <<"2", "h">>,
      <<"4", "5", "m", "i", "n">>,
      <<>>,
      <<"i", "n", "v", "a", "l", "i", "d">>,
      <<"-", "1", "h", " ", "5", "m", "i", "n">>,
      <<"1", "h", "5", "4", "m", "i", "n">> }

RuntimeInputs ==
    {None} \cup RuntimeSamples
           \cup UNION {[1..n -> RuntimeChars] : n \in 0..MaxLen}


InitRuntime ==
    /\ runtime_str \in RuntimeInputs
    /\ rt_pc = "call"
    /\ rt_out = Returned(0)

\* one call of Theater._parse_runtime(runtime_str)
ParseRuntime ==
    /\ rt_pc = "call"
    /\ rt_out' = parse_runtime(runtime_str)
    /\ rt_pc' = "done"
    /\ UNCHANGED runtime_str
    /\ UNCHANGED <<aggVars, webVars, castVars>>

-----------------------------------------------------------------------------
(* Configuration *)

\* the names of the cinemas of cinemas.yml, in file order
CinemaNames == <<"cinema-1", "cinema-2", "cinema-3", "cinema-4">>

\* CINEMAS: cinema id -> {name, coordinates}, in file order
CINEMAS ==
    [i \in 1..NTheaters |->
        [id |-> i, name |-> CinemaNames[i], coordinates |-> <<i, i>>]]

\* the module-level list of Theater objects of cinema_service
theaters ==
    [i \in 1..NTheaters |->
        [name |-> CINEMAS[i].name, internal_id |-> CINEMAS[i].id, location |-> None]]

-----------------------------------------------------------------------------
(* The HTTP surface *)

WelcomeText == "Bienvenue a l'application de programmation des cinemas independants parisiens !"

\* the paths the requests ask for
Paths == {"/", "/static/css/main.css", "/films"}

\* the delta query parameter: absent, an integer, or text that is no integer
Queries ==
    {[kind |-> "absent", val |-> 0], [kind |-> "text", val |-> 0]}
        \cup {[kind |-> "int", val |-> d] : d \in (0 - DeltaSpan)..(6 + DeltaSpan)}

Requests == [path : Paths, query : Queries]

\* an application that registers read_root before it includes the router
RoutesRootFirst ==
    << [kind |-> "mount", path |-> "/static", endpoint |-> "static"],
       [kind |-> "route", path |-> "/", endpoint |-> "read_root"],
       [kind |-> "route", path |-> "/", endpoint |-> "home"] >>

\* the routes of app, in the order main.py registers them
Routes ==
    << [kind |-> "mount", path |-> "/static", endpoint |-> "static"],
       [kind |-> "route", path |-> "/", endpoint |-> "home"],
       [kind |-> "route", path |-> "/", endpoint |-> "read_root"] >>

RouteMatches(r, path) ==
    IF r.kind = "mount" THEN path = "/static/css/main.css" ELSE path = r.path

\* the endpoint of the first registered route that matches the path
Dispatch(path) ==
    IF \E i \in 1..Len(Routes) : RouteMatches(Routes[i], path)
    THEN LET i == CHOOSE k \in 1..Len(Routes) :
                     /\ RouteMatches(Routes[k], path)
                     /\ \A j \in 1..(k - 1) : ~RouteMatches(Routes[j], path)
         IN  Routes[i].endpoint
    ELSE "not_found"

\* a home without the second clamping statement
ClampDeltaUpperOnly(d) == IF d > 6 THEN 6 ELSE d

\* the two clamping statements of home, in their order
ClampDelta(d) ==
    LET d1 == IF d > 6 THEN 6 ELSE d
    IN  IF d1 < 0 THEN 0 ELSE d1

translate_day(weekday) ==
    IF weekday \in 0..6
    THEN <<"lun", "mar", "mer", "jeu", "ven", "sam", "dim">>[weekday + 1]
    ELSE "???"

\* the day-selector entries of home; day stands for today + timedelta(i),
\* day 0 being a Monday
DaySelector(t, d) ==
    [k \in 1..7 |->
        [jour |-> translate_day((t + (k - 1)) % 7),
         day |-> t + (k - 1),
         choisi |-> (k - 1) = d,
         index |-> k - 1]]

\* what get_all_showtimes hands back to home: a list of films or an exception
AggOutcomes == {Returned(<<>>), Returned(<<"film">>), Raised}

NoResponse == [status |-> 0, content_type |-> "", body |-> <<>>]

InitRoutes ==
    /\ web_pc = "request"
    /\ today \in 0..MaxToday
    /\ request \in Requests
    /\ handler = ""
    /\ delta = 0
    /\ dates = <<>>
    /\ agg_date = -1
    /\ response = NoResponse

\* the application receives the request, dispatches it and runs the endpoint
\* up to its first suspension
HandleRequest ==
    /\ web_pc = "request"
    /\ LET ep == Dispatch(request.path)
           d == ClampDelta(IF request.query.kind = "int" THEN request.query.val ELSE 0)
       IN  /\ handler' = ep
           /\ CASE ep = "home" /\ request.query.kind # "text" ->
                     /\ delta' = d
                     /\ dates' = DaySelector(today, d)
                     /\ agg_date' = today + d
                     /\ web_pc' = "awaiting"
                     /\ UNCHANGED response
                [] ep = "home" /\ request.query.kind = "text" ->
                     /\ response' = [status |-> 422, content_type |-> "application/json",
                                     body |-> <<"int_parsing">>]
                     /\ web_pc' = "responded"
                     /\ UNCHANGED <<delta, dates, agg_date>>
                [] ep = "read_root" ->
                     /\ response' = [status |-> 200, content_type |-> "application/json",
                                     body |-> <<"message", WelcomeText>>]
                     /\ web_pc' = "responded"
                     /\ UNCHANGED <<delta, dates, agg_date>>
                [] ep = "static" ->
                     /\ response' = [status |-> 200, content_type |-> "text/css",
                                     body |-> <<request.path>>]
                     /\ web_pc' = "responded"
                     /\ UNCHANGED <<delta, dates, agg_date>>
                [] OTHER ->
                     /\ response' = [status |-> 404, content_type |-> "application/json",
                                     body |-> <<"Not Found">>]
                     /\ web_pc' = "responded"
                     /\ UNCHANGED <<delta, dates, agg_date>>
    /\ UNCHANGED <<today, request>>
    /\ UNCHANGED <<aggVars, rtVars, castVars>>

\* get_all_showtimes returns to home, which renders index.html; an exception
\* of get_all_showtimes is not caught and becomes a 500
HomeRender ==
    /\ web_pc = "awaiting"
    /\ \E films \in AggOutcomes :
          response' = IF films.raised
                      THEN [status |-> 500, content_type |-> "text/plain",
                            body |-> <<"Internal Server Error">>]
                      ELSE [status |-> 200, content_type |-> "text/html; charset=utf-8",
                            body |-> <<films.val, dates,
                                       [i \in 1..NTheaters |->
                                           [coordinates |-> CINEMAS[i].coordinates,
                                            description |-> CINEMAS[i].name]]>>]
    /\ web_pc' = "responded"
    /\ UNCHANGED <<today, request, handler, delta, dates, agg_date>>
    /\ UNCHANGED <<aggVars, rtVars, castVars>>

-----------------------------------------------------------------------------
(* The movie parser (Theater.parse_movie and its helpers) *)

\* dict.get(key, default); a dict is a record that may lack keys
Get(d, k, default) == IF k \in DOMAIN d THEN d[k] ELSE default

EmptyDict == [k \in {} |-> 0]

\* bool(v) of a str or None
Truthy(v) == v # None /\ v # <<>>

\* base64.b64decode(token).decode("utf-8") for the identifiers the upstream
\* sends; a token that is no base64 text raises binascii.Error
B64Decode(token) ==
    CASE token = "TW92aWU6MQ==" -> Returned(<<"M", "o", "v", "i", "e", ":", "1">>)
      [] token = "TW92aWU6Mg==" -> Returned(<<"M", "o", "v", "i", "e", ":", "2">>)
      [] token = "TW92aWU6Mw==" -> Returned(<<"M", "o", "v", "i", "e", ":", "3">>)
      [] token = "TW92aWU6NA==" -> Returned(<<"M", "o", "v", "i", "e", ":", "4">>)
      [] token = "TW92aWU6eA==" -> Returned(<<"M", "o", "v", "i", "e", ":", "x">>)
      [] OTHER -> Raised

\* s.split(sep)[-1] for a one-character sep: the text after its last occurrence
SplitLastOn(s, sep) ==
    LET cuts == {k \in 1..Len(s) : s[k] = sep}
    IN  IF cuts = {} THEN s
        ELSE SubSeq(s, (CHOOSE k \in cuts : \A j \in cuts : j <= k) + 1, Len(s))

decode_movie_id(encoded_id) ==
    LET decoded == B64Decode(encoded_id)
    IN  IF decoded.raised THEN Raised ELSE PyInt(SplitLastOn(decoded.val, ":"))

\* None where the upstream sends null for a dict
NoneDict == [none |-> TRUE]

\* bool(d) of a dict or None
DictTruthy(d) == d # NoneDict /\ DOMAIN d # {}

RECURSIVE parse_cast(_)
parse_cast(edge_list) ==
    IF edge_list = <<>> THEN <<>>
    ELSE LET actor_info == Get(Get(Head(edge_list), "node", EmptyDict), "actor", EmptyDict)
             firstname == Get(actor_info, "firstName", <<" ">>)
             lastname == Get(actor_info, "lastName", <<" ">>)
         IN  (IF DictTruthy(actor_info)
              THEN << IF Truthy(firstname) /\ Truthy(lastname)
                      THEN firstname \o <<" ">> \o lastname
                      ELSE <<"U", "n", "k", "n", "o", "w", "n">> >>
              ELSE <<>>)
             \o parse_cast(Tail(edge_list))

parse_director(credits) ==
    IF credits # <<>>
    THEN LET person == Get(credits[1], "person", EmptyDict)
         IN  Get(person, "firstName", <<"U", "n", "k", "n", "o", "w", "n">>)
                 \o <<" ">>
                 \o Get(person, "lastName", <<"U", "n", "k", "n", "o", "w", "n">>)
    ELSE <<"U", "n", "k", "n", "o", "w", "n">>

\* [genre["translate"] for genre in genres]
RECURSIVE Translations(_)
Translations(genres) ==
    IF genres = <<>> THEN <<>>
    ELSE <<Head(genres).translate>> \o Translations(Tail(genres))

parse_movie(movie_info) ==
    LET runtime == parse_runtime(Get(movie_info, "runtime", None))
        genres == Translations(Get(movie_info, "genres", <<>>))
        cast == parse_cast(Get(Get(movie_info, "cast", EmptyDict), "edges", <<>>))
        director == parse_director(Get(movie_info, "credits", <<>>))
        affiche == IF "poster" \in DOMAIN movie_info
                   THEN Get(movie_info.poster, "url", <<>>)
                   ELSE <<>>
        want_to_see == Get(movie_info, "wantToSee", 0)
        movie_id == decode_movie_id(movie_info.id)
    IN  IF runtime.raised \/ movie_id.raised THEN Raised
        ELSE Returned([title |-> movie_info.title,
                       runtime |-> runtime.val,
                       genres |-> genres,
                       cast |-> cast,
                       director |-> director,
                       synopsis |-> Get(movie_info, "synopsis", <<>>),
                       affiche |-> affiche,
                       wantToSee |-> want_to_see,
                       id |-> movie_id.val])

-----------------------------------------------------------------------------
(* One call of Theater.parse_cast *)

\* a key the upstream left out of a dict
Absent == <<"<absent>">>

\* what the upstream sends for a name: a text, "", null, or no key at all
NameValues == {<<"A", "l">>, <<>>, None, Absent}

\* a dict with the keys whose value is not Absent
ActorDict(first, last) ==
    (IF first = Absent THEN EmptyDict ELSE [firstName |-> first])
        @@ (IF last = Absent THEN EmptyDict ELSE [lastName |-> last])

\* the edges of a cast list: an actor with each combination of names, an
\* actor dict without any name key, a null actor, a node without an actor,
\* an edge without a node
CastEdges ==
    {[node |-> [actor |-> ActorDict(f, l)]] : f \in NameValues, l \in NameValues}
        \cup {[node |-> [actor |-> [position |-> <<"1">>]]],
              [node |-> [actor |-> NoneDict]],
              [node |-> EmptyDict],
              EmptyDict}

CastInputs == UNION {[1..n -> CastEdges] : n \in 0..MaxEdges}

InitCast ==
    /\ edges \in CastInputs
    /\ cast_pc = "call"
    /\ cast_out = <<>>

\* one call of Theater.parse_cast(edges)
ParseCast ==
    /\ cast_pc = "call"
    /\ cast_out' = parse_cast(edges)
    /\ cast_pc' = "done"
    /\ UNCHANGED edges
    /\ UNCHANGED <<aggVars, rtVars, webVars>>

-----------------------------------------------------------------------------
(* What the upstream listings API can answer *)

\* startsAt values "2023-05-0dThh:mm:ss"
StartsAt(d, h, m, sec) == [startsAt |-> [d |-> d, h |-> h, m |-> m, s |-> sec]]

\* datetime.strptime(text, "%Y-%m-%dT%H:%M:%S")
Strptime(t) == [day |-> t.d, hour |-> t.h, minute |-> t.m, second |-> t.s]

\* start_at.strftime("%H:%M")
StrftimeHM(dt) == <<dt.hour, ":", dt.minute>>

\* a record with every optional field, as the upstream sends it for most films
FullMovie(token, title, wts) ==
    [id |-> token,
     title |-> title,
     runtime |-> <<"1", "h", " ", "5", "4", "m", "i", "n">>,
     genres |-> << [translate |-> <<"D", "r", "a", "m", "e">>],
                   [translate |-> <<"P", "o", "l">>] >>,
     cast |-> [edges |-> << [node |-> [actor |-> [firstName |-> <<"A", "l">>,
                                                  lastName |-> <<"P">>]]],
                            [node |-> [position |-> 2]],
                            [node |-> [actor |-> [firstName |-> <<"B">>]]] >>],
     credits |-> << [person |-> [firstName |-> <<"F">>, lastName |-> <<"C">>]] >>,
     poster |-> [url |-> <<"u", token>>],
     synopsis |-> <<"s", title>>,
     wantToSee |-> wts]

\* a record with the mandatory fields only, as in the test suite
BareMovie(token, title) == [id |-> token, title |-> title]

MovieA1 == FullMovie("TW92aWU6MQ==", "A", 2)
\* another upstream record with the title of MovieA1
MovieA2 == FullMovie("TW92aWU6Mg==", "A", 5)
MovieB == [id |-> "TW92aWU6Mw==", title |-> "B", wantToSee |-> 2]
MovieC == [id |-> "TW92aWU6NA==", title |-> "C", wantToSee |-> 7, runtime |-> <<"2", "h">>]
\* the identifier of the test suite, which is no base64 text
MovieBad == BareMovie("123", "D")

AllLists ==
    [dubbed |-> <<StartsAt(1, 10, 0, 0)>>,
     original |-> <<StartsAt(1, 12, 0, 0)>>,
     local |-> <<StartsAt(1, 14, 30, 0)>>]

OriginalOnly == [original |-> <<StartsAt(1, 14, 30, 0), StartsAt(1, 10, 0, 30)>>]

Block(movie, lists) == [movie |-> movie, showtimes |-> lists]

\* the "results" lists of the responses
ResultsUniverse ==
    { <<Block(MovieA1, AllLists), Block(MovieC, OriginalOnly)>>,
      <<Block(MovieB, OriginalOnly), Block(MovieA2, AllLists)>>,
      <<Block(MovieB, AllLists), Block(MovieBad, AllLists)>> }

\* the numeric strings of the pagination object: the page the response says
\* it is, and the number of pages it says there are
PageTexts == {<<"1">>, <<"2">>}
TotalTexts == {<<"0">>, <<"1">>, <<"2">>}

NoMessage == "ok"

\* the answers of one GET: a non-200 status, the three stop signals (carrying
\* a results list that must be ignored), and the pages of results
Responses ==
    {[status |-> 500, message |-> NoMessage, error |-> FALSE, results |-> <<>>,
      pagination |-> [page |-> <<"1">>, totalPages |-> <<"1">>]]}
    \cup
    {[status |-> 200, message |-> sig[1], error |-> sig[2],
      results |-> <<Block(MovieA2, AllLists)>>,
      pagination |-> [page |-> <<"1">>, totalPages |-> <<"2">>]] :
        sig \in {<<"no.showtime.error", FALSE>>, <<"next.showtime.on", FALSE>>,
                 <<NoMessage, TRUE>>}}
    \cup
    {[status |-> 200, message |-> NoMessage, error |-> FALSE, results |-> r,
      pagination |-> [page |-> p, totalPages |-> t]] :
        r \in ResultsUniverse, p \in PageTexts, t \in TotalTexts}

-----------------------------------------------------------------------------
(* Theater.get_showtimes *)

\* a loop that overlooks the error field
IsStopSignalMessageOnly(data) ==
    data.message \in {"no.showtime.error", "next.showtime.on"}

\* the test of the first break of the loop
IsStopSignal(data) ==
    data.message \in {"no.showtime.error", "next.showtime.on"} \/ data.error

\* a showtime_list that starts with the original-language list
ShowtimeListOriginalFirst(movie_data) ==
    Get(movie_data.showtimes, "original", <<>>)
        \o Get(movie_data.showtimes, "dubbed", <<>>)
        \o Get(movie_data.showtimes, "local", <<>>)

\* showtime_list of one movie block
ShowtimeList(movie_data) ==
    Get(movie_data.showtimes, "dubbed", <<>>)
        \o Get(movie_data.showtimes, "original", <<>>)
        \o Get(movie_data.showtimes, "local", <<>>)

\* the Showtime objects of a showtime_list, in its order
RECURSIVE MakeShowtimes(_, _, _)
MakeShowtimes(movie, theater, list) ==
    IF list = <<>> THEN <<>>
    ELSE <<[movie |-> movie, theater |-> theater,
            start_at |-> Strptime(Head(list).startsAt)]>>
         \o MakeShowtimes(movie, theater, Tail(list))

\* the for loop over data["results"]; an exception of parse_movie ends it
RECURSIVE ParseResults(_, _)
ParseResults(results, theater) ==
    IF results = <<>> THEN Returned(<<>>)
    ELSE LET movie == parse_movie(Head(results).movie)
             rest == ParseResults(Tail(results), theater)
         IN  IF movie.raised \/ rest.raised THEN Raised
             ELSE Returned(MakeShowtimes(movie.val, theater, ShowtimeList(Head(results)))
                           \o rest.val)

\* a last-page test on the loop's own page counter
IsLastPageByCounter(data) ==
    page >= PyInt(data.pagination.totalPages).val

\* the test of the second break of the loop
IsLastPage(data) ==
    PyInt(data.pagination.page).val >= PyInt(data.pagination.totalPages).val

\* a loop that steps over a page
NextPageSkip(p) == p + 2

\* page += 1
NextPage(p) == p + 1

\* the arguments get_showtimes passes to fetch_showtimes_page
FetchCall(t, d, p) == [theater |-> t, date |-> d, page |-> p]

\* a fetch_showtimes_page that does not look at the status
StatusOkUnchecked(data) == TRUE

\* fetch_showtimes_page returns the body of a 200 response and raises otherwise
StatusOk(data) == data.status = 200

\* one iteration of the while loop: the fetch of the page and what follows it
FetchPage ==
    /\ pc = "fetch"
    /\ page <= MaxPage
    /\ \E data \in Responses :
          LET parsed == ParseResults(data.results, theaters[ti])
          IN  /\ calls' = Append(calls, FetchCall(ti, date, page))
              /\ responses' = Append(responses, data)
              /\ IF ~StatusOk(data)
                 THEN pc' = "failed" /\ UNCHANGED <<showtimes, page>>
                 ELSE IF IsStopSignal(data)
                 THEN pc' = "returned" /\ UNCHANGED <<showtimes, page>>
                 ELSE IF parsed.raised
                 THEN pc' = "failed" /\ UNCHANGED <<showtimes, page>>
                 ELSE /\ showtimes' = showtimes \o parsed.val
                      /\ IF IsLastPage(data)
                         THEN pc' = "returned" /\ UNCHANGED page
                         ELSE pc' = "fetch" /\ page' = NextPage(page)
    /\ UNCHANGED <<date, ti, allShowtimes, result>>
    /\ UNCHANGED <<rtVars, webVars, castVars>>

-----------------------------------------------------------------------------
(* get_all_showtimes *)

\* the date get_all_showtimes is called with, as a day number
Dates == {3}

NoResult == Returned(<<"not returned">>)

\* sep.join(parts)
RECURSIVE Join(_, _)
Join(sep, parts) ==
    IF parts = <<>> THEN <<>>
    ELSE IF Len(parts) = 1 THEN parts[1]
    ELSE parts[1] \o sep \o Join(sep, Tail(parts))

\* the entry created when a title is met for the first time
NewEntry(movie) ==
    [title |-> movie.title,
     duree |-> movie.runtime,
     genres |-> Join(<<",", " ">>, movie.genres),
     casting |-> Join(<<",", " ">>, movie.cast),
     realisateur |-> movie.director,
     synopsis |-> movie.synopsis,
     affiche |-> movie.affiche,
     director |-> movie.director,
     wantToSee |-> movie.wantToSee,
     url |-> <<"https://www.allocine.fr/film/fichefilm_gen_cfilm=", movie.id, ".html">>,
     seances |-> <<>>]

\* a fold that assigns the list of a theater instead of appending to it
AddSeanceOverwrite(seances, name, time) ==
    LET s1 == IF \E i \in 1..Len(seances) : seances[i].theater = name
              THEN seances
              ELSE Append(seances, [theater |-> name, times |-> <<>>])
        k == CHOOSE i \in 1..Len(s1) : s1[i].theater = name
    IN  [s1 EXCEPT ![k].times = <<time>>]

\* seances[name].append(time), the key being created when missing; the dict is
\* the sequence of its items in insertion order
AddSeance(seances, name, time) ==
    LET s1 == IF \E i \in 1..Len(seances) : seances[i].theater = name
              THEN seances
              ELSE Append(seances, [theater |-> name, times |-> <<>>])
        k == CHOOSE i \in 1..Len(s1) : s1[i].theater = name
    IN  [s1 EXCEPT ![k].times = Append(@, time)]

\* a fold that rewrites the fields of the entry from every showtime of the title
FoldShowtimeLatest(data, showtime) ==
    LET movie == showtime.movie
        d1 == IF \E i \in 1..Len(data) : data[i].title = movie.title
              THEN data
              ELSE Append(data, NewEntry(movie))
        k == CHOOSE i \in 1..Len(d1) : d1[i].title = movie.title
    IN  [d1 EXCEPT ![k] =
            [NewEntry(movie) EXCEPT !.seances =
                AddSeance(d1[k].seances, showtime.theater.name,
                          StrftimeHM(showtime.start_at))]]

\* the body of the loop over showtimes; data is the dict keyed by title, as the
\* sequence of its values in insertion order
FoldShowtime(data, showtime) ==
    LET movie == showtime.movie
        d1 == IF \E i \in 1..Len(data) : data[i].title = movie.title
              THEN data
              ELSE Append(data, NewEntry(movie))
        k == CHOOSE i \in 1..Len(d1) : d1[i].title = movie.title
    IN  [d1 EXCEPT ![k].seances =
            AddSeance(@, showtime.theater.name, StrftimeHM(showtime.start_at))]

RECURSIVE FoldAll(_, _)
FoldAll(data, list) ==
    IF list = <<>> THEN data
    ELSE FoldAll(FoldShowtime(data, Head(list)), Tail(list))

\* an ascending sort that is reversed afterwards: equal keys end up reversed
InsertBeforeEqual(sorted, e) ==
    LET n == Cardinality({i \in 1..Len(sorted) : sorted[i].wantToSee > e.wantToSee})
    IN  SubSeq(sorted, 1, n) \o <<e>> \o SubSeq(sorted, n + 1, Len(sorted))

\* sorted(entries, key=wantToSee, reverse=True): a stable sort, so an entry goes
\* behind every entry whose key is at least its own
InsertByWantToSee(sorted, e) ==
    LET n == Cardinality({i \in 1..Len(sorted) : sorted[i].wantToSee >= e.wantToSee})
    IN  SubSeq(sorted, 1, n) \o <<e>> \o SubSeq(sorted, n + 1, Len(sorted))

RECURSIVE SortByWantToSee(_)
SortByWantToSee(entries) ==
    IF entries = <<>> THEN <<>>
    ELSE InsertByWantToSee(SortByWantToSee(SubSeq(entries, 1, Len(entries) - 1)),
                           entries[Len(entries)])

InitAgg ==
    /\ pc = "idle"
    /\ date = 0
    /\ ti = 0
    /\ page = 0
    /\ showtimes = <<>>
    /\ responses = <<>>
    /\ calls = <<>>
    /\ allShowtimes = <<>>
    /\ result = NoResult

\* an extend that puts the new elements in front
ExtendInFront(list, more) == more \o list

\* list.extend(more)
Extend(list, more) == list \o more

\* get_all_showtimes(d) is called and calls get_showtimes of the first theater
Start ==
    /\ pc = "idle"
    /\ \E d \in Dates : date' = d
    /\ ti' = 1
    /\ page' = 1
    /\ showtimes' = <<>>
    /\ responses' = <<>>
    /\ pc' = "fetch"
    /\ UNCHANGED <<calls, allShowtimes, result>>
    /\ UNCHANGED <<rtVars, webVars, castVars>>

\* get_showtimes returned: its list is added to the accumulator and
\* get_showtimes of the next theater is called
NextTheater ==
    /\ pc = "returned"
    /\ ti < NTheaters
    /\ allShowtimes' = Extend(allShowtimes, showtimes)
    /\ ti' = ti + 1
    /\ page' = 1
    /\ showtimes' = <<>>
    /\ responses' = <<>>
    /\ pc' = "fetch"
    /\ UNCHANGED <<date, calls, result>>
    /\ UNCHANGED <<rtVars, webVars, castVars>>

\* get_showtimes of the last theater returned: its list is added, the
\* accumulator is folded by title and the entries are sorted and returned;
\* the frame of get_showtimes is gone
Aggregate ==
    /\ pc = "returned"
    /\ ti = NTheaters
    /\ allShowtimes' = Extend(allShowtimes, showtimes)
    /\ result' = Returned(SortByWantToSee(FoldAll(<<>>, allShowtimes')))
    /\ page' = 0
    /\ showtimes' = <<>>
    /\ responses' = <<>>
    /\ pc' = "done"
    /\ UNCHANGED <<date, ti, calls>>
    /\ UNCHANGED <<rtVars, webVars, castVars>>

-----------------------------------------------------------------------------
(* Specifications *)

\* the parts of the program a specification does not run
IdleAgg ==
    /\ pc = "off"
    /\ date = 0
    /\ ti = 0
    /\ page = 0
    /\ showtimes = <<>>
    /\ responses = <<>>
    /\ calls = <<>>
    /\ allShowtimes = <<>>
    /\ result = NoResult

IdleRuntime ==
    /\ runtime_str = None
    /\ rt_pc = "off"
    /\ rt_out = Returned(0)

IdleRoutes ==
    /\ web_pc = "off"
    /\ today = 0
    /\ request = [path |-> "/", query |-> [kind |-> "absent", val |-> 0]]
    /\ handler = ""
    /\ delta = 0
    /\ dates = <<>>
    /\ agg_date = -1
    /\ response = NoResponse

IdleCast ==
    /\ edges = <<>>
    /\ cast_pc = "off"
    /\ cast_out = <<>>

\* one call of get_all_showtimes
Init == InitAgg /\ IdleRuntime /\ IdleRoutes /\ IdleCast

Next ==
    \/ Start
    \/ FetchPage
    \/ NextTheater
    \/ Aggregate

Spec == Init /\ [][Next]_vars

\* the fetch that get_showtimes awaits returns: the step of Next that records
\* a call of fetch_showtimes_page, which is FetchPage
FetchReturns ==
    /\ pc = "fetch"
    /\ page <= MaxPage
    /\ calls' = Append(calls, FetchCall(ti, date, page))

\* one call of get_all_showtimes in which every awaited fetch returns: the
\* event loop resumes get_showtimes with the answer
SpecFetchReturns == Init /\ [][Next]_vars /\ WF_calls(FetchReturns)

\* one call of Theater._parse_runtime
InitRt == IdleAgg /\ InitRuntime /\ IdleRoutes /\ IdleCast

NextRuntime == ParseRuntime

SpecRuntime == InitRt /\ [][NextRuntime]_vars

\* one GET request to the application
InitWeb == IdleAgg /\ IdleRuntime /\ InitRoutes /\ IdleCast

NextRoutes ==
    \/ HandleRequest
    \/ HomeRender

SpecRoutes == InitWeb /\ [][NextRoutes]_vars

\* one call of Theater.parse_cast
InitCastCall == IdleAgg /\ IdleRuntime /\ IdleRoutes /\ InitCast

NextCast == ParseCast

SpecCast == InitCastCall /\ [][NextCast]_vars

-----------------------------------------------------------------------------
(* Properties of Theater.get_showtimes *)

\* the calls of fetch_showtimes_page made by the get_showtimes call in progress
ThisCall == SubSeq(calls, Len(calls) - Len(responses) + 1, Len(calls))

\* a response carries one of the three stop signals
HasStopSignal(r) ==
    r.message = "no.showtime.error" \/ r.message = "next.showtime.on" \/ r.error = TRUE

\* the number a pagination text stands for
PageNumber(text) == CHOOSE n \in 0..9 : DigitChars[n + 1] = text[1]

\* response k of this call answered page k of n, without a stop signal
Orderly(n) ==
    \A k \in 1..Len(responses) :
        /\ responses[k].status = 200
        /\ ~HasStopSignal(responses[k])
        /\ PageNumber(responses[k].pagination.page) = k
        /\ PageNumber(responses[k].pagination.totalPages) = n

\* C1: when the upstream answers pages 1..N without a stop signal, page k
\* reporting page = k and totalPages = N, get_showtimes calls the fetch
\* operation for the pages 1, 2, ..., N in that order and with its own date,
\* N times exactly: the call returns after the N-th fetch and not before.
C1_PagesInOrder ==
    pc \in {"fetch", "returned"} =>
        \A n \in 1..9 :
            Orderly(n) =>
                /\ Len(responses) <= n
                /\ \A k \in 1..Len(ThisCall) :
                      ThisCall[k] = [theater |-> ti, date |-> date, page |-> k]
                /\ (pc = "returned") <=> (Len(responses) = n)
                /\ pc = "fetch" => page = Len(responses) + 1

C1_Witness ==
    /\ pc = "returned"
    /\ Orderly(2)
    /\ Len(ThisCall) = 2
    /\ ThisCall[2].page = 2

\* the showtimes the claims expect of one movie block: dubbed, then original,
\* then local, a missing list counting as empty
ListOf(block, key) ==
    IF key \in DOMAIN block.showtimes THEN block.showtimes[key] ELSE <<>>

RECURSIVE ExpectedOfList(_, _, _)
ExpectedOfList(block, list, t) ==
    IF list = <<>> THEN <<>>
    ELSE << [movie |-> parse_movie(block.movie).val,
             theater |-> theaters[t],
             start_at |-> [day |-> list[1].startsAt.d, hour |-> list[1].startsAt.h,
                           minute |-> list[1].startsAt.m, second |-> list[1].startsAt.s]] >>
         \o ExpectedOfList(block, Tail(list), t)

ExpectedOfBlock(block, t) ==
    ExpectedOfList(block, ListOf(block, "dubbed"), t)
        \o ExpectedOfList(block, ListOf(block, "original"), t)
        \o ExpectedOfList(block, ListOf(block, "local"), t)

RECURSIVE ExpectedOfBlocks(_, _)
ExpectedOfBlocks(blocks, t) ==
    IF blocks = <<>> THEN <<>>
    ELSE ExpectedOfBlock(blocks[1], t) \o ExpectedOfBlocks(Tail(blocks), t)

\* the showtimes of the first n responses of this call, in page order
RECURSIVE ExpectedOfPages(_, _)
ExpectedOfPages(n, t) ==
    IF n = 0 THEN <<>>
    ELSE ExpectedOfPages(n - 1, t) \o ExpectedOfBlocks(responses[n].results, t)

\* C2: a response with message "no.showtime.error", message
\* "next.showtime.on" or a truthy error field ends the fetch of the theater:
\* it is the last response of the call, it adds no showtime, and the call
\* returns the showtimes of the pages before it (none after one fetch when it
\* is the answer to page 1).
C2_StopSignalEndsFetch ==
    \A k \in 1..Len(responses) :
        (responses[k].status = 200 /\ HasStopSignal(responses[k])) =>
            /\ k = Len(responses)
            /\ pc = "returned"
            /\ Len(ThisCall) = k
            /\ showtimes = ExpectedOfPages(k - 1, ti)
            /\ k = 1 => showtimes = <<>>

C2_Witness ==
    /\ pc = "returned"
    /\ Len(responses) = 2
    /\ responses[2].error = TRUE
    /\ responses[2].results # <<>>
    /\ showtimes = ExpectedOfPages(1, ti)
    /\ showtimes # <<>>

\* C3: the list of get_showtimes is the concatenation, in page order and in
\* block order within a page, of each block's dubbed, original and local
\* lists in that order; every Showtime carries the movie parsed from its own
\* block and the theater being fetched.
C3_ShowtimesInOrder ==
    (pc \in {"fetch", "returned"}
        /\ \A k \in 1..Len(responses) : ~HasStopSignal(responses[k])) =>
            showtimes = ExpectedOfPages(Len(responses), ti)

C3_Witness ==
    /\ pc = "returned"
    /\ Len(responses) = 2
    /\ ~HasStopSignal(responses[2])
    /\ Len(responses[1].results) = 2
    /\ responses[1].results # responses[2].results
    /\ \E b \in 1..2 : "dubbed" \notin DOMAIN responses[1].results[b].showtimes
    /\ Len(showtimes) = 10

-----------------------------------------------------------------------------
(* Properties of get_all_showtimes *)

\* the identifiers that decode to "<type>:<integer>"
DecodableIds == {"TW92aWU6MQ==", "TW92aWU6Mg==", "TW92aWU6Mw==", "TW92aWU6NA=="}

\* the fetch of this response cannot succeed: a non-200 status, or a page of
\* results with a movie identifier that does not decode
FailingResponse(r) ==
    \/ r.status # 200
    \/ /\ ~HasStopSignal(r)
       /\ \E b \in 1..Len(r.results) : r.results[b].movie.id \notin DecodableIds

\* C4: aggregation is all-or-nothing: when a page fetch of a theater answers
\* with a non-200 status or carries a movie identifier that does not decode,
\* get_all_showtimes fails as a whole and returns nothing, whatever was
\* fetched before; the failed fetch is the last one: it is not retried and no
\* later theater is fetched.
C4_AllOrNothing ==
    /\ \A k \in 1..Len(responses) :
          FailingResponse(responses[k]) =>
              /\ pc = "failed"
              /\ k = Len(responses)
    /\ pc = "failed" =>
          /\ result = NoResult
          /\ FailingResponse(responses[Len(responses)])
          /\ calls[Len(calls)] = [theater |-> ti, date |-> date, page |-> Len(responses)]
          /\ \A i, j \in 1..Len(calls) : calls[i] = calls[j] => i = j
          /\ \A i \in 1..Len(calls) : calls[i].theater <= ti

C4_Witness ==
    /\ pc = "failed"
    /\ ti = 2
    /\ allShowtimes # <<>>
    /\ Len(responses) = 2
    /\ responses[2].status = 200

\* the title of every showtime gathered, and the place where it is first met
TitlesOf(list) == {list[i].movie.title : i \in 1..Len(list)}

FirstSeen(list, title) ==
    CHOOSE i \in 1..Len(list) :
        /\ list[i].movie.title = title
        /\ \A j \in 1..(i - 1) : list[j].movie.title # title

\* "HH:MM" of a start time
ClockTime(dt) == <<dt.hour, ":", dt.minute>>

\* the start times, in arrival order, of a title at the theater of a name
RECURSIVE TimesOf(_, _, _)
TimesOf(list, title, name) ==
    IF list = <<>> THEN <<>>
    ELSE (IF list[1].movie.title = title /\ list[1].theater.name = name
          THEN <<ClockTime(list[1].start_at)>>
          ELSE <<>>)
         \o TimesOf(Tail(list), title, name)

TheaterNames == {theaters[i].name : i \in 1..NTheaters}

\* C5: the output has exactly one entry per distinct movie title of the
\* gathered showtimes; the keys of an entry's seances are exactly the names of
\* the theaters that show the title, and a theater's list holds the "HH:MM"
\* start times of the title at that theater in arrival order, none lost and
\* none duplicated.
C5_OneEntryPerTitle ==
    pc = "done" =>
        LET out == result.val
        IN  /\ {out[i].title : i \in 1..Len(out)} = TitlesOf(allShowtimes)
            /\ \A i, j \in 1..Len(out) : out[i].title = out[j].title => i = j
            /\ \A i \in 1..Len(out) :
                  LET se == out[i].seances
                  IN  /\ \A a, b \in 1..Len(se) : se[a].theater = se[b].theater => a = b
                      /\ {se[a].theater : a \in 1..Len(se)} =
                            {n \in TheaterNames :
                                TimesOf(allShowtimes, out[i].title, n) # <<>>}
                      /\ \A a \in 1..Len(se) :
                            se[a].times = TimesOf(allShowtimes, out[i].title, se[a].theater)

C5_Witness ==
    /\ pc = "done"
    /\ \E i \in 1..Len(result.val) :
          /\ Len(result.val[i].seances) = 2
          /\ Len(result.val[i].seances[1].times) >= 4
          /\ result.val[i].seances[1].times # result.val[i].seances[2].times
    /\ Len(result.val) = 3

\* C6: the output is ordered by non-increasing popularity score, and two
\* entries of equal score are in the order in which their titles were first
\* met in the gathered showtimes.
C6_SortedByPopularity ==
    pc = "done" =>
        LET out == result.val
        IN  \A i, j \in 1..Len(out) :
                i < j =>
                    /\ out[i].wantToSee >= out[j].wantToSee
                    /\ out[i].wantToSee = out[j].wantToSee =>
                          FirstSeen(allShowtimes, out[i].title)
                              < FirstSeen(allShowtimes, out[j].title)

C6_Witness ==
    /\ pc = "done"
    /\ Len(result.val) = 3
    /\ result.val[2].wantToSee = result.val[3].wantToSee
    /\ FirstSeen(allShowtimes, result.val[1].title)
          > FirstSeen(allShowtimes, result.val[2].title)

-----------------------------------------------------------------------------
(* Properties of the HTTP surface *)

\* a GET of "/" without a delta parameter
PlainRoot == request.path = "/" /\ request.query.kind = "absent"

WelcomeResponse ==
    [status |-> 200, content_type |-> "application/json",
     body |-> <<"message", WelcomeText>>]

C8_DeltaClamped ==
    (web_pc \in {"awaiting", "responded"} /\ handler = "home"
        /\ request.query.kind = "int") =>
        LET d == request.query.val
            effective == IF d > 6 THEN 6 ELSE IF d < 0 THEN 0 ELSE d
        IN  /\ delta = effective
            /\ delta \in 0..6
            /\ d \in 0..6 => delta = d
            /\ agg_date = today + effective
            /\ Len(dates) = 7
            /\ \A k \in 1..7 :
                  /\ dates[k].index = k - 1
                  /\ dates[k].day = today + (k - 1)
                  /\ dates[k].choisi <=> (k - 1 = effective)

C8_Witness ==
    /\ web_pc = "awaiting"
    /\ handler = "home"
    /\ request.query.kind = "int"
    /\ request.query.val < 0
    /\ delta = 0
    /\ dates[1].choisi
    /\ agg_date = today

-----------------------------------------------------------------------------
(* Properties of Theater._parse_runtime *)

InvalidText == <<"i", "n", "v", "a", "l", "i", "d">>

\* C9, as claimed: the runtime parser raises on the input "invalid".
C9_InvalidRaises ==
    (rt_pc = "done" /\ runtime_str = InvalidText) => rt_out.raised

\* C9, as amended: the runtime parser returns 0 on the input "invalid", which
\* has neither an hour marker nor a minute marker; it does not raise.
C9_InvalidReturnsZero ==
    (rt_pc = "done" /\ runtime_str = InvalidText) => rt_out = Returned(0)

C9_Witness ==
    /\ rt_pc = "done"
    /\ runtime_str = InvalidText
    /\ ~rt_out.raised

\* the markers of a runtime text
HasHourMarker(s) == \E i \in 1..Len(s) : s[i] = "h"
HasMinuteMarker(s) ==
    \E i \in 1..(Len(s) - 2) : s[i] = "m" /\ s[i + 1] = "i" /\ s[i + 2] = "n"

\* the text in front of the first hour marker
HourText(s) ==
    LET i == CHOOSE k \in 1..Len(s) : s[k] = "h" /\ \A j \in 1..(k - 1) : s[j] # "h"
    IN  SubSeq(s, 1, i - 1)

\* the last word in front of the first minute marker
MinuteText(s) ==
    LET i == CHOOSE k \in 1..(Len(s) - 2) :
                 /\ SubSeq(s, k, k + 2) = <<"m", "i", "n">>
                 /\ \A j \in 1..(k - 1) : SubSeq(s, j, j + 2) # <<"m", "i", "n">>
    IN  SplitLast(SubSeq(s, 1, i - 1)).val

\* C10: the runtime parser returns 0 for an absent value and for every string
\* with neither an hour marker nor a minute marker ("" and "invalid"
\* included); for the other strings, whenever it returns, the result is
\* hours * 60 + minutes, a component whose marker is absent counting as 0.
C10_UnrecognisedIsZero ==
    rt_pc = "done" =>
        IF runtime_str = None
            \/ (~HasHourMarker(runtime_str) /\ ~HasMinuteMarker(runtime_str))
        THEN rt_out = Returned(0)
        ELSE ~rt_out.raised =>
                rt_out.val =
                    (IF HasHourMarker(runtime_str)
                     THEN PyInt(HourText(runtime_str)).val ELSE 0) * 60
                    + (IF HasMinuteMarker(runtime_str)
                       THEN PyInt(MinuteText(runtime_str)).val ELSE 0)

C10_Witness ==
    /\ rt_pc = "done"
    /\ runtime_str = <<"1", "1">>
    /\ rt_out = Returned(0)

-----------------------------------------------------------------------------
(* C11: the cast names *)

\* the edge carries an actor payload: a non-null, non-empty actor object
HasActorPayload(edge) ==
    /\ "node" \in DOMAIN edge
    /\ "actor" \in DOMAIN edge.node
    /\ edge.node.actor # NoneDict
    /\ DOMAIN edge.node.actor # {}

\* the name is in the payload, and is neither null nor empty
NamePresent(actor, key) ==
    /\ key \in DOMAIN actor
    /\ actor[key] # None
    /\ actor[key] # <<>>

RECURSIVE ExpectedCast(_)
ExpectedCast(edge_list) ==
    IF edge_list = <<>> THEN <<>>
    ELSE LET edge == Head(edge_list)
         IN  (IF HasActorPayload(edge)
              THEN << IF NamePresent(edge.node.actor, "firstName")
                         /\ NamePresent(edge.node.actor, "lastName")
                      THEN edge.node.actor.firstName \o <<" ">>
                               \o edge.node.actor.lastName
                      ELSE <<"U", "n", "k", "n", "o", "w", "n">> >>
              ELSE <<>>)
             \o ExpectedCast(Tail(edge_list))

\* C11: parse_cast emits one entry per edge that has an actor payload and
\* none for the other edges, in edge order; the entry is "first last" when
\* both names are present, and "Unknown" when either name is missing from
\* the payload, null or empty.
C11_CastEntries ==
    cast_pc = "done" => cast_out = ExpectedCast(edges)

-----------------------------------------------------------------------------
(* C12: the theaters in sequence *)

\* the position in the configuration of the theater of a showtime
TheaterIndex(showtime) == CHOOSE i \in 1..NTheaters : theaters[i] = showtime.theater

\* the fetches of the current theater that have not been answered yet
Unanswered ==
    Cardinality({k \in 1..Len(calls) : calls[k].theater = ti}) - Len(responses)

\* C12: the theaters are fetched one after the other in configuration order:
\* the fetches start with the first theater and each fetch is for the theater
\* of the fetch before it or for the next one in the configuration, so every
\* page fetch of theater i precedes the first one of theater i+1; a fetch is
\* answered before anything else happens, so none is in flight when the next
\* one starts; and the concatenated list holds the showtimes of the theaters
\* fetched completely, theater i's before theater i+1's.
C12_TheatersInSequence ==
    pc \in {"fetch", "returned", "failed", "done"} =>
        /\ Len(calls) > 0 => calls[1].theater = 1
        /\ \A k \in 1..(Len(calls) - 1) :
              \/ calls[k + 1].theater = calls[k].theater
              \/ calls[k + 1].theater = calls[k].theater + 1
        /\ \A k \in 1..Len(calls) : calls[k].theater <= ti
        /\ pc # "done" => Unanswered = 0
        /\ \A a \in 1..Len(allShowtimes) :
              /\ pc # "done" => TheaterIndex(allShowtimes[a]) < ti
              /\ a < Len(allShowtimes) =>
                    TheaterIndex(allShowtimes[a]) <= TheaterIndex(allShowtimes[a + 1])

C12_Witness ==
    /\ pc = "done"
    /\ Len(calls) = 3
    /\ calls[2].theater = 1
    /\ calls[3].theater = 2
    /\ \E a, b \in 1..Len(allShowtimes) :
          /\ TheaterIndex(allShowtimes[a]) = 1
          /\ TheaterIndex(allShowtimes[b]) = 2

-----------------------------------------------------------------------------
(* C13: the sign of the runtime *)

\* C13: whenever the runtime parser returns, for a string or for an absent
\* value, the number of minutes it returns is an integer greater than or
\* equal to 0, also when the hour or the minute component carries a sign.
C13_RuntimeNonNegative ==
    (rt_pc = "done" /\ ~rt_out.raised) => (rt_out.val \in Int /\ rt_out.val >= 0)

-----------------------------------------------------------------------------
(* C14: the fields of an entry *)

\* the movie of the first gathered showtime with the title
FirstMovie(title) == allShowtimes[FirstSeen(allShowtimes, title)].movie

\* C14: the display fields, the link and the popularity score of an entry
\* are those of the movie of the first gathered showtime with its title; a
\* later showtime with the same title from another upstream record (another
\* id, another score, another poster) adds its start time and changes none
\* of them.
C14_FieldsOfFirstShowtime ==
    pc = "done" =>
        \A i \in 1..Len(result.val) :
            LET entry == result.val[i]
                first == FirstMovie(entry.title)
            IN  /\ entry.duree = first.runtime
                /\ entry.genres = Join(<<",", " ">>, first.genres)
                /\ entry.casting = Join(<<",", " ">>, first.cast)
                /\ entry.realisateur = first.director
                /\ entry.director = first.director
                /\ entry.synopsis = first.synopsis
                /\ entry.affiche = first.affiche
                /\ entry.wantToSee = first.wantToSee
                /\ entry.url = <<"https://www.allocine.fr/film/fichefilm_gen_cfilm=",
                                 first.id, ".html">>
                /\ \A a \in 1..Len(allShowtimes) :
                      allShowtimes[a].movie.title = entry.title =>
                          \E t \in 1..Len(entry.seances) :
                              /\ entry.seances[t].theater = allShowtimes[a].theater.name
                              /\ \E n \in 1..Len(entry.seances[t].times) :
                                    entry.seances[t].times[n]
                                        = ClockTime(allShowtimes[a].start_at)

C14_Witness ==
    /\ pc = "done"
    /\ \E a, b \in 1..Len(allShowtimes) :
          /\ a < b
          /\ a = FirstSeen(allShowtimes, allShowtimes[a].movie.title)
          /\ allShowtimes[a].movie.title = allShowtimes[b].movie.title
          /\ allShowtimes[a].movie.id # allShowtimes[b].movie.id
          /\ allShowtimes[a].movie.wantToSee < allShowtimes[b].movie.wantToSee
          /\ allShowtimes[a].movie.affiche # allShowtimes[b].movie.affiche
          /\ allShowtimes[a].theater # allShowtimes[b].theater
          /\ \E i \in 1..Len(result.val) :
                /\ result.val[i].title = allShowtimes[a].movie.title
                /\ result.val[i].wantToSee = allShowtimes[a].movie.wantToSee
                /\ Len(result.val[i].seances) = 2

-----------------------------------------------------------------------------
(* C15: the end of the pagination loop *)

\* every response so far was a 200 that carries a stop signal or reports the
\* page that was asked for
Cooperative ==
    \A k \in 1..Len(responses) :
        /\ responses[k].status = 200
        /\ \/ HasStopSignal(responses[k])
           \/ PageNumber(responses[k].pagination.page) = ThisCall[k].page

\* Cooperative, the responses without a stop signal reporting n pages in all
CooperativeWith(n) ==
    /\ Cooperative
    /\ \A k \in 1..Len(responses) :
          HasStopSignal(responses[k])
              \/ PageNumber(responses[k].pagination.totalPages) = n

\* the response reports a page below the number of pages it reports
ReportsMorePages(r) ==
    PageNumber(r.pagination.page) < PageNumber(r.pagination.totalPages)

\* what holds of the loop in every state
LoopExit ==
    pc \in {"fetch", "returned", "failed"} =>
        \* the loop never ends before its first fetch
        /\ pc # "fetch" => Len(responses) >= 1
        \* with T pages reported, it has ended after max(1, T) fetches
        /\ \A n \in 0..9 :
              CooperativeWith(n) =>
                  /\ Len(responses) <= (IF n = 0 THEN 1 ELSE n)
                  /\ Len(responses) = (IF n = 0 THEN 1 ELSE n) => pc # "fetch"
        \* the exit is decided by the reported numbers, whatever the counter
        /\ Len(responses) >= 1 =>
              LET last == responses[Len(responses)]
              IN  /\ pc = "returned" =>
                        (HasStopSignal(last) \/ ~ReportsMorePages(last))
                  /\ (last.status = 200 /\ ~HasStopSignal(last)
                        /\ ReportsMorePages(last)) => pc \in {"fetch", "failed"}
                  /\ (last.status = 200 /\ ~HasStopSignal(last)
                        /\ ~ReportsMorePages(last)) => pc \in {"returned", "failed"}

\* C15: get_showtimes ends whenever every fetch returns and the upstream
\* cooperates: when each response carries a stop signal or reports the page
\* asked for and T pages in all, the loop ends, after at most T fetches and
\* never before the first one (one fetch when T is 0); the exit is decided by
\* the page number the response reports and not by the loop's counter, so the
\* loop goes on after every response that reports a page below totalPages
\* without a stop signal.
C15_LoopEnds ==
    /\ []LoopExit
    /\ (pc = "fetch" /\ Cooperative) ~> (pc # "fetch" \/ ~Cooperative)

C15_Witness ==
    /\ pc = "returned"
    /\ page = 2
    /\ Len(responses) = 2
    /\ CooperativeWith(2)
    /\ \A k \in 1..2 : ~HasStopSignal(responses[k])

=============================================================================
